---- MODULE Spec2Model ----
(***************************************************************************)
(* Canteen Inventory Tracker (src/app.py).                                 *)
(*                                                                         *)
(* State: the Streamlit session state (items, next_id, edit_id), the data  *)
(* file inventory.json, and what the last script run produced (the message *)
(* shown and the listing order).  Every action is one user interaction:    *)
(* the callback or form handler that runs, followed by the rerun of the    *)
(* script body of main_app.                                                *)
(*                                                                         *)
(* Representation.  A Python str is a sequence of code points ("1" is      *)
(* <<49>>).  A Python int is an integer.  A Python float (the price) is an *)
(* integer number of thousandths.  A JSON value in the data file is a      *)
(* record [kind, v] with kind "int", "float" or "missing".                 *)
(***************************************************************************)
EXTENDS Integers, Sequences, FiniteSets, TLC

VARIABLES
    items,         \* st.session_state.items: sequence of item records
    next_id,       \* st.session_state.next_id
    edit_id,       \* st.session_state.edit_id: <<>> is None, <<id>> is an id
    file,          \* inventory.json: [exists, valid, data]
    msg,           \* message shown by the last interaction
    sorted_items,  \* listing produced by the last script run
    call           \* the last interaction: [op, id, change, args, len]

vars == <<items, next_id, edit_id, file, msg, sorted_items, call>>

\* ---------------------------------------------------------------- bounds
MaxItems == 2      \* add is explored while the collection is shorter
MaxNextId == 3     \* add is explored while next_id is at most this
MaxQty == 1        \* increments are explored while the result is at most this

\* ------------------------------------------------------- strings, numbers
None == <<>>
Some(x) == <<x>>

Apple == <<65, 112, 112, 108, 101>>
Juice == <<74, 117, 105, 99, 101>>
Rice == <<82, 105, 99, 101>>
EmptyName == <<>>

IsDigit(c) == c >= 48 /\ c <= 57

\* str(n) for a Python int
RECURSIVE PyStrNat(_)
PyStrNat(n) ==
    IF n < 10 THEN <<48 + n>> ELSE PyStrNat(n \div 10) \o <<48 + (n % 10)>>

PyStr(n) == IF n < 0 THEN <<45>> \o PyStrNat(0 - n) ELSE PyStrNat(n)

\* str.strip() of blanks, as int() does before parsing
RECURSIVE StripLeft(_)
StripLeft(s) ==
    IF s # <<>> /\ Head(s) = 32 THEN StripLeft(Tail(s)) ELSE s

RECURSIVE StripRight(_)
StripRight(s) ==
    IF s # <<>> /\ s[Len(s)] = 32 THEN StripRight(SubSeq(s, 1, Len(s) - 1)) ELSE s

RECURSIVE DigitsValue(_)
DigitsValue(s) ==
    IF s = <<>> THEN 0
    ELSE 10 * DigitsValue(SubSeq(s, 1, Len(s) - 1)) + (s[Len(s)] - 48)

AllDigits(s) == s # <<>> /\ \A i \in 1..Len(s) : IsDigit(s[i])

\* int(s) for a Python str: [ok |-> FALSE] is ValueError
PyIntOfStr(s) ==
    LET t == StripRight(StripLeft(s))
        signed == t # <<>> /\ (Head(t) = 45 \/ Head(t) = 43)
        body == IF signed THEN Tail(t) ELSE t
    IN  IF AllDigits(body)
        THEN [ok |-> TRUE,
              v |-> IF signed /\ Head(t) = 45 THEN 0 - DigitsValue(body)
                    ELSE DigitsValue(body)]
        ELSE [ok |-> FALSE, v |-> 0]

\* s < t for Python str: lexicographic by code point
RECURSIVE StrLess(_, _)
StrLess(s, t) ==
    IF t = <<>> THEN FALSE
    ELSE IF s = <<>> THEN TRUE
    ELSE IF Head(s) # Head(t) THEN Head(s) < Head(t)
    ELSE StrLess(Tail(s), Tail(t))

\* round(price, 2) on thousandths (inputs of the model are never ties)
Round2(p) ==
    LET a == IF p < 0 THEN 0 - p ELSE p
        r == ((a + 5) \div 10) * 10
    IN  IF p < 0 THEN 0 - r ELSE r

\* --------------------------------------------------------- JSON data file
JInt(n) == [kind |-> "int", v |-> n]
JFloat(p) == [kind |-> "float", v |-> p]
JMissing == [kind |-> "missing", v |-> 0]

\* int(item.get(key, default)) on a JSON number
GetInt(j, default) ==
    IF j.kind = "missing" THEN default
    ELSE IF j.kind = "int" THEN j.v
    ELSE IF j.v < 0 THEN 0 - ((0 - j.v) \div 1000) ELSE j.v \div 1000

\* float(item.get(key, default)) on a JSON number, in thousandths
GetFloat(j, default) ==
    IF j.kind = "missing" THEN default
    ELSE IF j.kind = "int" THEN j.v * 1000
    ELSE j.v

LoadItem(r) ==
    [id |-> r.id, name |-> r.name,
     quantity |-> GetInt(r.quantity, 0),
     price |-> GetFloat(r.price, 0),
     threshold |-> GetInt(r.threshold, 1)]

load_items(f) ==
    IF ~f.exists THEN <<>>
    ELSE IF ~f.valid THEN <<>>
    ELSE [i \in 1..Len(f.data) |-> LoadItem(f.data[i])]

DumpItem(it) ==
    [id |-> it.id, name |-> it.name,
     quantity |-> JInt(it.quantity),
     price |-> JFloat(it.price),
     threshold |-> JInt(it.threshold)]

save_items(its) ==
    [exists |-> TRUE, valid |-> TRUE,
     data |-> [i \in 1..Len(its) |-> DumpItem(its[i])]]

\* a handler that forgets to save: the file keeps its old contents
SaveSkipped(its) == file

update_inventory_and_save(its) == save_items(its)

\* ------------------------------------------------------------ id assignment
Max(a, b) == IF a >= b THEN a ELSE b

\* the loop of get_next_id: ids that int() rejects are skipped
RECURSIVE MaxIdLoop(_, _)
MaxIdLoop(its, max_id) ==
    IF its = <<>> THEN max_id
    ELSE LET r == PyIntOfStr(Head(its).id)
         IN  MaxIdLoop(Tail(its), IF r.ok THEN Max(max_id, r.v) ELSE max_id)

get_next_id(its) == IF its = <<>> THEN 1 ELSE MaxIdLoop(its, 0) + 1

\* ------------------------------------------------------------- the listing
is_low_stock(it) == it.quantity <= it.threshold

\* the sort key of render_inventory_list: (quantity <= threshold, name),
\* a Python bool ordered False < True
SortKey(it) == <<IF is_low_stock(it) THEN 1 ELSE 0, it.name>>

KeyLess(a, b) == a[1] < b[1] \/ (a[1] = b[1] /\ StrLess(a[2], b[2]))

\* sorted() is stable: an element goes after the elements not greater than it
RECURSIVE InsertSorted(_, _)
InsertSorted(s, x) ==
    IF s = <<>> THEN <<x>>
    ELSE IF KeyLess(SortKey(x), SortKey(Head(s))) THEN <<x>> \o s
    ELSE <<Head(s)>> \o InsertSorted(Tail(s), x)

RECURSIVE SortedFrom(_, _)
SortedFrom(done, rest) ==
    IF rest = <<>> THEN done
    ELSE SortedFrom(InsertSorted(done, Head(rest)), Tail(rest))

render_inventory_list(its) == SortedFrom(<<>>, its)

\* ------------------------------------------------------- store operations
\* next(i for i, item in enumerate(items) if item['id'] == item_id), or -1
FindIndex(its, item_id) ==
    IF \E i \in 1..Len(its) : its[i].id = item_id
    THEN CHOOSE i \in 1..Len(its) :
            /\ its[i].id = item_id
            /\ \A j \in 1..(i - 1) : its[j].id # item_id
    ELSE -1

\* an id taken from the collection's length instead of next_id
NewItemIdFromLen(nid) == PyStr(Len(items) + 1)

NewItemId(nid) == PyStr(nid)

NewItem(nid, name, quantity, price, threshold) ==
    [id |-> NewItemId(nid), name |-> name, quantity |-> quantity,
     price |-> Round2(price), threshold |-> threshold]

AppendItem(its, it) == Append(its, it)

\* next_id left as it was
NextIdNotAdvanced(nid) == nid

NextIdAfterAdd(nid) == nid + 1

\* the bound of the check off by one
QuantityAllowedOffByOne(new_quantity) == new_quantity >= -1

QuantityAllowed(new_quantity) == new_quantity >= 0

\* update_quantity_action on the collection: the new collection, whether it
\* was saved, and the message shown
UpdateQuantity(its, item_id, change) ==
    LET item_index == FindIndex(its, item_id)
    IN  IF item_index # -1
        THEN LET new_quantity == its[item_index].quantity + change
             IN  IF QuantityAllowed(new_quantity)
                 THEN [items |-> [its EXCEPT ![item_index].quantity = new_quantity],
                       saved |-> TRUE, msg |-> "none"]
                 ELSE [items |-> its, saved |-> FALSE,
                       msg |-> "warning: Quantity cannot be negative."]
        ELSE [items |-> its, saved |-> FALSE, msg |-> "none"]

\* everything up to the matching item dropped with it
DeleteThrough(its, item_id) ==
    IF \E i \in 1..Len(its) : its[i].id = item_id
    THEN SubSeq(its,
                1 + (CHOOSE i \in 1..Len(its) :
                        /\ its[i].id = item_id
                        /\ \A j \in 1..(i - 1) : its[j].id # item_id),
                Len(its))
    ELSE its

DeleteItems(its, item_id) == SelectSeq(its, LAMBDA it : it.id # item_id)

\* the assignments of the Save Changes branch of render_edit_form
EditItem(it, new_name, new_quantity, new_price, new_threshold) ==
    [it EXCEPT !.name = new_name, !.quantity = new_quantity,
               !.price = Round2(new_price), !.threshold = new_threshold]

\* ------------------------------------------------------- the script rerun
\* main_app after the callbacks: render_edit_form resets an edit_id that
\* matches no item and returns; the list is rendered only outside edit mode
RerunEditId(its, eid) ==
    IF eid # None /\ FindIndex(its, eid[1]) = -1 THEN None ELSE eid

RerunView(its, eid) ==
    IF eid = None THEN render_inventory_list(its) ELSE <<>>

Call(op, item_id, change, args) ==
    [op |-> op, id |-> item_id, change |-> change, args |-> args,
     len |-> Len(items)]

\* ------------------------------------------------------------------ inputs
\* what the widgets of the two forms can submit (number_input enforces
\* min_value: quantity >= 0, price >= 0.0, threshold >= 1; the name is free)
AddFormInputs ==
    { <<Apple, 0, 1234, 1>>, <<EmptyName, 1, 1234, 1>> }

EditFormInputs ==
    { <<EmptyName, 1, 1234, 1>>, <<Apple, 0, 1234, 1>> }

\* arguments of a direct call of add_item_action, which has no widget in front
AddActionInputs ==
    AddFormInputs \cup { <<Apple, -1, 1234, 1>> }

\* the args of the two quantity buttons
Changes == {-1, 1}

UnknownId == <<57, 57>>

ItemIds(its) == { its[i].id : i \in 1..Len(its) }

IdArgs == ItemIds(items) \cup {UnknownId}

\* contents of inventory.json when the session starts
AbsentFile == [exists |-> FALSE, valid |-> FALSE, data |-> <<>>]

CorruptFile == [exists |-> TRUE, valid |-> FALSE, data |-> <<>>]

\* one record with a non-numeric id, a float quantity and a missing threshold
OddFile ==
    [exists |-> TRUE, valid |-> TRUE,
     data |-> << [id |-> <<120>>, name |-> Juice, quantity |-> JFloat(2500),
                  price |-> JInt(3), threshold |-> JMissing] >>]

\* an id with a leading zero: int("02") is 2
PaddedFile ==
    [exists |-> TRUE, valid |-> TRUE,
     data |-> << [id |-> <<48, 50>>, name |-> Rice, quantity |-> JInt(1),
                  price |-> JFloat(1500), threshold |-> JInt(1)] >>]

\* the listing example: Rice and Apple are low on stock, Juice is not
ExampleFile ==
    [exists |-> TRUE, valid |-> TRUE,
     data |-> << [id |-> PyStr(7), name |-> Rice, quantity |-> JInt(1),
                  price |-> JFloat(1000), threshold |-> JInt(2)],
                 [id |-> PyStr(8), name |-> Juice, quantity |-> JInt(2),
                  price |-> JFloat(2000), threshold |-> JInt(1)],
                 [id |-> PyStr(9), name |-> Apple, quantity |-> JInt(0),
                  price |-> JFloat(500), threshold |-> JInt(1)] >>]

InitFiles == {AbsentFile, CorruptFile, OddFile, PaddedFile, ExampleFile}

\* ----------------------------------------------------------------- actions
\* the end of every interaction: the new session state, the file, the
\* message, and the script rerun
Finish(its, nid, eid, f, m, c) ==
    /\ items' = its
    /\ next_id' = nid
    /\ edit_id' = RerunEditId(its, eid)
    /\ file' = f
    /\ msg' = m
    /\ sorted_items' = RerunView(its, eid)
    /\ call' = c

\* init_state and the first script run
Init ==
    \E f \in InitFiles :
        /\ file = f
        /\ items = load_items(f)
        /\ next_id = get_next_id(load_items(f))
        /\ edit_id = None
        /\ msg = IF f.exists /\ ~f.valid THEN "error: Error loading" ELSE "none"
        /\ sorted_items = render_inventory_list(load_items(f))
        /\ call = [op |-> "init_state", id |-> None, change |-> 0,
                   args |-> <<>>, len |-> 0]

add_item_action(op, a) ==
    /\ Len(items) < MaxItems
    /\ next_id <= MaxNextId
    /\ LET its == AppendItem(items, NewItem(next_id, a[1], a[2], a[3], a[4]))
       IN  Finish(its, NextIdAfterAdd(next_id), edit_id,
                  update_inventory_and_save(its), "success: added",
                  Call(op, NewItemId(next_id), 0, a))

AddItemAction == \E a \in AddActionInputs : add_item_action("add_item_action", a)

\* the Add Item submit of the sidebar form
RenderAddItemForm ==
    \E a \in AddFormInputs :
        IF a[1] # <<>>
        THEN add_item_action("render_add_item_form", a)
        ELSE Finish(items, next_id, edit_id, file,
                    "error: Item Name is required.",
                    Call("render_add_item_form", None, 0, a))

update_quantity_action(item_id, change) ==
    LET r == UpdateQuantity(items, item_id, change)
        k == FindIndex(items, item_id)
    IN  /\ (change > 0 /\ k # -1) => items[k].quantity + change <= MaxQty
        /\ Finish(r.items, next_id, edit_id,
                  IF r.saved THEN update_inventory_and_save(r.items) ELSE file,
                  r.msg, Call("update_quantity_action", item_id, change, <<>>))

UpdateQuantityAction ==
    \E item_id \in IdArgs, change \in Changes :
        update_quantity_action(item_id, change)

set_edit_mode(item_id) ==
    Finish(items, next_id, Some(item_id), file, "none",
           Call("set_edit_mode", item_id, 0, <<>>))

SetEditMode == \E item_id \in IdArgs : set_edit_mode(item_id)

delete_item_action(item_id) ==
    LET its == DeleteItems(items, item_id)
    IN  Finish(its, next_id, edit_id, update_inventory_and_save(its),
               "success: Item deleted.",
               Call("delete_item_action", item_id, 0, <<>>))

DeleteItemAction == \E item_id \in IdArgs : delete_item_action(item_id)

\* Save Changes of the edit form, which ends with st.rerun()
RenderEditForm ==
    /\ edit_id # None
    /\ FindIndex(items, edit_id[1]) # -1
    /\ \E a \in EditFormInputs :
        LET k == FindIndex(items, edit_id[1])
            its == [items EXCEPT ![k] = EditItem(items[k], a[1], a[2], a[3], a[4])]
        IN  Finish(its, next_id, None, update_inventory_and_save(its), "none",
                   Call("render_edit_form", edit_id[1], 0, a))

\* the Cancel button of the edit form
CancelEdit ==
    /\ edit_id # None
    /\ Finish(items, next_id, None, file, "none",
              Call("cancel_edit", edit_id[1], 0, <<>>))

Next ==
    \/ RenderAddItemForm
    \/ AddItemAction
    \/ UpdateQuantityAction
    \/ SetEditMode
    \/ DeleteItemAction
    \/ RenderEditForm
    \/ CancelEdit

Spec == Init /\ [][Next]_vars

\* ------------------------------------------------------------------ claims
AddOps == {"add_item_action", "render_add_item_form"}

ValidArgs(a) == a[1] # EmptyName /\ a[2] >= 0 /\ a[3] >= 0 /\ a[4] >= 1

IsFailureMsg(m) ==
    m \in {"error: Item Name is required.",
           "warning: Quantity cannot be negative.",
           "error: Error loading"}

\* C1: in the listing of render_inventory_list every low-stock item
\* (quantity <= threshold) comes before every item that is not low on stock,
\* and within each group the names ascend.
ListingLowStockFirst ==
    \A i, j \in 1..Len(sorted_items) :
        i < j =>
            /\ ~(~is_low_stock(sorted_items[i]) /\ is_low_stock(sorted_items[j]))
            /\ is_low_stock(sorted_items[i]) = is_low_stock(sorted_items[j])
                  => ~StrLess(sorted_items[j].name, sorted_items[i].name)

\* C2: a delete trigger that no confirmation follows leaves the collection
\* unchanged.  The program takes no confirmation: every trigger of
\* delete_item_action is one without it.
DeleteNeedsConfirmation ==
    [][call'.op = "delete_item_action" => items' = items]_vars

\* C3: a Save Changes submission with an empty name is rejected with an
\* error and leaves the collection unchanged.
EditRejectsEmptyName ==
    [][(call'.op = "render_edit_form" /\ call'.args[1] = EmptyName)
         => (items' = items /\ IsFailureMsg(msg'))]_vars

\* C4: update_quantity_action with an id that matches no item leaves the
\* collection unchanged and reports a failure.
UnknownIdReportsNotFound ==
    [][(call'.op = "update_quantity_action" /\ call'.id \notin ItemIds(items))
         => (items' = items /\ IsFailureMsg(msg'))]_vars

\* C5: update_quantity_action on an existing item whose quantity plus the
\* change is negative leaves the collection and the file unchanged and shows
\* the 'Quantity cannot be negative' warning; no adjustment makes a
\* non-negative quantity negative.
NegativeAdjustRejected ==
    [][call'.op = "update_quantity_action" =>
         LET k == FindIndex(items, call'.id)
         IN  /\ (k # -1 /\ items[k].quantity + call'.change < 0)
                   => /\ items' = items
                      /\ file' = file
                      /\ msg' = "warning: Quantity cannot be negative."
             /\ Len(items') = Len(items)
             /\ \A i \in 1..Len(items) :
                   items[i].quantity >= 0 => items'[i].quantity >= 0]_vars

NegativeAdjustSeen ==
    /\ call.op = "update_quantity_action"
    /\ msg = "warning: Quantity cannot be negative."
    /\ \E i \in 1..Len(items) :
          /\ items[i].id = call.id
          /\ items[i].quantity >= 0
          /\ items[i].quantity + call.change < 0

\* C6: an add request with an empty name, a negative quantity, a negative
\* price or a threshold below 1 leaves the collection and next_id unchanged
\* and reports an error, on the form path and on add_item_action itself.
AddRejectsInvalid ==
    [][(call'.op \in AddOps /\ ~ValidArgs(call'.args))
         => (items' = items /\ next_id' = next_id /\ IsFailureMsg(msg'))]_vars

\* C7: no two items of the collection have the same id.
UniqueIds ==
    \A i, j \in 1..Len(items) : i # j => items[i].id # items[j].id

\* an add after a delete, next to a loaded id that int() rejects
AddAfterDeleteWithOddId ==
    /\ call.op \in AddOps
    /\ Len(items) = call.len + 1
    /\ \E i \in 1..Len(items) : ~PyIntOfStr(items[i].id).ok
    /\ next_id - 1 >
          Cardinality({i \in 1..Len(items) : PyIntOfStr(items[i].id).ok})

\* C8: what load_items returns for the file is the collection in memory.
PersistedEqualsMemory == load_items(file) = items

EditPersisted ==
    /\ call.op = "render_edit_form"
    /\ file.exists /\ file.valid
    /\ Len(file.data) = Len(items)
    /\ Len(items) >= 2

\* C9: an add with valid fields grows the collection by exactly one, leaves
\* the items already present as they were, and a lookup by the assigned id
\* returns the new item.
ValidAddAppends ==
    [][(call'.op \in AddOps /\ ValidArgs(call'.args)) =>
         LET k == FindIndex(items', call'.id)
         IN  /\ Len(items') = Len(items) + 1
             /\ SubSeq(items', 1, Len(items)) = items
             /\ k = Len(items')
             /\ items'[k].name = call'.args[1]
             /\ items'[k].quantity = call'.args[2]
             /\ items'[k].price = Round2(call'.args[3])
             /\ items'[k].threshold = call'.args[4]]_vars

ValidAddSeen ==
    /\ call.op \in AddOps
    /\ ValidArgs(call.args)
    /\ Len(items) = call.len + 1
    /\ Len(items) >= 2
    /\ next_id - 1 > Len(items)

\* C10: delete_item_action for an id of the collection removes the item
\* with that id and nothing else: the others keep their fields and their
\* order, and the collection is shorter by exactly one.
DeleteRemovesExactlyOne ==
    [][(call'.op = "delete_item_action" /\ call'.id \in ItemIds(items)) =>
         LET k == FindIndex(items, call'.id)
         IN  /\ Len(items') = Len(items) - 1
             /\ items' = SubSeq(items, 1, k - 1) \o SubSeq(items, k + 1, Len(items))]_vars

DeleteSeen ==
    /\ call.op = "delete_item_action"
    /\ call.len = Len(items) + 1
    /\ Len(items) >= 2
    /\ call.id \notin ItemIds(items)

====
